---- MODULE Spec2Model ----
(***************************************************************************)
(* Connection-lifecycle controller of app/components/JitsiMeetComponent.tsx *)
(* One mounted JitsiMeetComponent: its React state (connectionStatus,       *)
(* reconnectAttempts), its refs (jitsiApiRef, isReconnectingRef), the       *)
(* widget handles it constructed, the setInterval probes it scheduled, the  *)
(* script elements it appended and the useEffect registration.              *)
(*                                                                          *)
(* Every callback (event listener, interval callback, script onload) is a  *)
(* closure of the render in which initializeJitsi was handed out, so each   *)
(* handle, probe and script carries the props and the reconnectAttempts     *)
(* value of that render.  React runs the effect of a committed render in a  *)
(* later task than the setState that caused the render, so RunEffect is a   *)
(* step of its own and other callbacks may run before it.                   *)
(***************************************************************************)
EXTENDS Integers, Sequences, FiniteSets, TLC

\* ------------------------------------------------------------------ bounds
MaxHandles == 4        \* widget handles constructed in one run
MaxPropChanges == 1    \* prop changes delivered by the host page

\* --------------------------------------------------------------- constants
MAX_RECONNECT_ATTEMPTS == 3

ConnectionStates ==
    {"connecting", "connected", "reconnecting", "left", "closed", "error", "failed"}

RoomNames == {"roomA", "roomB"}
DisplayNames == {"User", "Ann"}
Domains == {"meet.jit.si", "jitsi.example"}

PropFields ==
    {"roomName", "displayName", "domain", "startWithAudioMuted", "startWithVideoMuted"}

\* The props of the first render: the defaults of the destructuring.
JitsiMeetProps ==
    [roomName |-> "roomA", displayName |-> "User", domain |-> "meet.jit.si",
     startWithAudioMuted |-> FALSE, startWithVideoMuted |-> FALSE]

\* The other value of a prop field.
OtherValue(p, f) ==
    CASE f = "roomName" -> CHOOSE v \in RoomNames : v # p.roomName
      [] f = "displayName" -> CHOOSE v \in DisplayNames : v # p.displayName
      [] f = "domain" -> CHOOSE v \in Domains : v # p.domain
      [] f = "startWithAudioMuted" -> ~p.startWithAudioMuted
      [] f = "startWithVideoMuted" -> ~p.startWithVideoMuted

\* ------------------------------------------------------- error payloads
\* Texts are sequences of characters so that String.includes is computed.
ServiceText == <<"s","e","r","v","i","c","e"," ","d","o","w","n">>
LimitText == <<"r","a","t","e"," ","l","i","m","i","t">>
OtherText == <<"t","i","m","e","o","u","t">>
ServiceWord == <<"s","e","r","v","i","c","e">>
LimitWord == <<"l","i","m","i","t">>

\* error.error of an errorOccurred payload; defined = FALSE is a payload
\* without the field (error.error?.includes(...) is then undefined).
ErrorPayloads ==
    {[kind |-> "service", defined |-> TRUE, text |-> ServiceText],
     [kind |-> "limit", defined |-> TRUE, text |-> LimitText],
     [kind |-> "other", defined |-> TRUE, text |-> OtherText],
     [kind |-> "undefined", defined |-> FALSE, text |-> <<>>]}

\* Mutant of includes: the text must start with the word.
includes_AtStart(s, sub) ==
    Len(s) >= Len(sub) /\ SubSeq(s, 1, Len(sub)) = sub

\* String.prototype.includes
includes(s, sub) ==
    \E i \in 1..(Len(s) - Len(sub) + 1) : SubSeq(s, i, i + Len(sub) - 1) = sub

\* ------------------------------------------------------------------- state
VARIABLES
    mounted,            \* the component is mounted (its container is in the document)
    libLoaded,          \* window.JitsiMeetExternalAPI is defined
    props,              \* the props of the latest render
    propChanges,        \* number of prop changes so far
    connectionStatus,   \* useState("connecting")
    reconnectAttempts,  \* useState(0)
    isReconnecting,     \* isReconnectingRef.current
    jitsiApiRef,        \* jitsiApiRef.current: index into handles, 0 = null
    handles,            \* every handle constructed, with its closure and its probe
    options,            \* the options the latest handle was constructed with
    scripts,            \* every script element appended, with its closure
    effectDeps,         \* dependency array of the effect that last ran
    cleanupKind,        \* which cleanup that effect returned
    cleanupScript,      \* the script its cleanup closes over (0 = none)
    last,               \* the step that led to this state
    failRun             \* consecutive connectionFailed handled from connected/0

vars == <<mounted, libLoaded, props, propChanges, connectionStatus,
          reconnectAttempts, isReconnecting, jitsiApiRef, handles, options,
          scripts, effectDeps, cleanupKind, cleanupScript, last, failRun>>

\* The dependency array of the current render.
Deps ==
    [roomName |-> props.roomName, displayName |-> props.displayName,
     domain |-> props.domain, reconnectAttempts |-> reconnectAttempts]

\* Before the first effect has run there is no previous dependency array.
NoDeps ==
    [roomName |-> "", displayName |-> "", domain |-> "", reconnectAttempts |-> -1]

\* The values a callback created in the current render closes over.
Closure == [props |-> props, reconnectAttempts |-> reconnectAttempts]

Live(hs) == {i \in 1..Len(hs) : hs[i].disposed = 0}
Monitors(hs) == {i \in 1..Len(hs) : hs[i].monitor}

\* Why the effect of the current render runs: first mount, a changed
\* roomName, displayName or domain, or only a changed reconnectAttempts.
EffectCause ==
    IF effectDeps = NoDeps THEN "mount"
    ELSE IF \/ effectDeps.roomName # props.roomName
            \/ effectDeps.displayName # props.displayName
            \/ effectDeps.domain # props.domain
         THEN "params"
         ELSE "reconnect"

\* The record of a step: which callback ran, how it ended, what the
\* reconnect policy did in it, and what it did to the state, the pending
\* restart, the counter, the flag and the handles (read off the state before
\* and after the step).
Step(op, result, policy) ==
    [op |-> op, result |-> result, policy |-> policy,
     cause |-> IF op = "effect" THEN EffectCause ELSE "none",
     sameStatus |-> connectionStatus' = connectionStatus,
     scheduled |-> (mounted' /\ Deps' # effectDeps') /\ ~(mounted /\ Deps # effectDeps),
     inc |-> reconnectAttempts' - reconnectAttempts,
     flag |-> IF isReconnecting' = isReconnecting THEN "kept"
              ELSE IF isReconnecting' THEN "set" ELSE "cleared",
     made |-> Len(handles') - Len(handles),
     timers |-> Cardinality(Monitors(handles')) - Cardinality(Monitors(handles)),
     had |-> jitsiApiRef # 0,
     disposals |-> IF jitsiApiRef # 0
                   THEN handles'[jitsiApiRef].disposed - handles[jitsiApiRef].disposed
                   ELSE 0]

\* No step yet: the state after the first render.
NoStep ==
    [op |-> "init", result |-> "none", policy |-> "none", cause |-> "none",
     sameStatus |-> TRUE, scheduled |-> FALSE,
     inc |-> 0, flag |-> "kept", made |-> 0, timers |-> 0, had |-> FALSE,
     disposals |-> 0]

\* ---------------------------------------------------------------- helpers
\* api.dispose() followed by jitsiApiRef.current = null, when the ref is set.
dispose(hs, ref) ==
    IF ref # 0 THEN [hs EXCEPT ![ref].disposed = @ + 1] ELSE hs

\* new window.JitsiMeetExternalAPI(domain, options) and the setInterval that
\* follows it: the handle, the reconnectAttempts its listeners and its probe
\* close over, and its probe running.
JitsiMeetExternalAPI(cl) ==
    [reconnectAttempts |-> cl.reconnectAttempts, disposed |-> 0, monitor |-> TRUE]

\* No handle has been constructed yet.
NoOptions ==
    [roomName |-> "", displayName |-> "", domain |-> "",
     startWithAudioMuted |-> FALSE, startWithVideoMuted |-> FALSE]

\* Mutant of initializeJitsi: the previous instance is not cleaned up before
\* the new one is constructed.
initializeJitsi_NoDispose(cl, lib, throws, hs, ref, flag, opts) ==
    IF ~lib
    THEN [handles |-> hs, ref |-> ref, flag |-> flag, options |-> opts,
          status |-> "error", result |-> "nolib"]
    ELSE IF throws
         THEN [handles |-> hs, ref |-> ref, flag |-> flag, options |-> opts,
               status |-> "error", result |-> "threw"]
         ELSE [handles |-> Append(hs, JitsiMeetExternalAPI(cl)),
               ref |-> Len(hs) + 1, flag |-> FALSE, options |-> cl.props,
               status |-> "connected", result |-> "created"]

\* Mutant of initializeJitsi: setConnectionStatus("connected") runs before
\* the constructor and the catch block sets no status.
initializeJitsi_NoErrorStatus(cl, lib, throws, hs, ref, flag, opts) ==
    IF ~lib
    THEN [handles |-> hs, ref |-> ref, flag |-> flag, options |-> opts,
          status |-> "error", result |-> "nolib"]
    ELSE LET hs1 == dispose(hs, ref) IN
         IF throws
         THEN [handles |-> hs1, ref |-> 0, flag |-> flag, options |-> opts,
               status |-> "connected", result |-> "threw"]
         ELSE [handles |-> Append(hs1, JitsiMeetExternalAPI(cl)),
               ref |-> Len(hs1) + 1, flag |-> FALSE, options |-> cl.props,
               status |-> "connected", result |-> "created"]

\* Mutant of initializeJitsi: the previous instance is disposed after the
\* constructor has returned, so a throwing constructor leaves it in place.
initializeJitsi_DisposeAfterConstruct(cl, lib, throws, hs, ref, flag, opts) ==
    IF ~lib
    THEN [handles |-> hs, ref |-> ref, flag |-> flag, options |-> opts,
          status |-> "error", result |-> "nolib"]
    ELSE IF throws
         THEN [handles |-> hs, ref |-> ref, flag |-> flag, options |-> opts,
               status |-> "error", result |-> "threw"]
         ELSE LET hs1 == dispose(hs, ref) IN
              [handles |-> Append(hs1, JitsiMeetExternalAPI(cl)),
               ref |-> Len(hs1) + 1, flag |-> FALSE, options |-> cl.props,
               status |-> "connected", result |-> "created"]

\* initializeJitsi of the render with closure cl; lib is
\* window.JitsiMeetExternalAPI, throws whether the constructor throws.
\* Returns the handles, the refs, the options given to the constructor and
\* the status it sets.
initializeJitsi(cl, lib, throws, hs, ref, flag, opts) ==
    IF ~lib
    THEN [handles |-> hs, ref |-> ref, flag |-> flag, options |-> opts,
          status |-> "error", result |-> "nolib"]
    ELSE LET hs1 == dispose(hs, ref) IN
         IF throws
         THEN [handles |-> hs1, ref |-> 0, flag |-> flag, options |-> opts,
               status |-> "error", result |-> "threw"]
         ELSE [handles |-> Append(hs1, JitsiMeetExternalAPI(cl)),
               ref |-> Len(hs1) + 1, flag |-> FALSE, options |-> cl.props,
               status |-> "connected", result |-> "created"]

\* Mutant of handleConnectionIssue: <= instead of < in the comparison with
\* MAX_RECONNECT_ATTEMPTS.
handleConnectionIssue_OffByOne(att, flag, status, attempts) ==
    IF flag
    THEN [flag |-> flag, status |-> status, attempts |-> attempts,
          policy |-> "skipped"]
    ELSE IF att <= MAX_RECONNECT_ATTEMPTS
         THEN [flag |-> TRUE, status |-> "reconnecting",
               attempts |-> attempts + 1, policy |-> "retry"]
         ELSE [flag |-> TRUE, status |-> "failed", attempts |-> attempts,
               policy |-> "giveup"]

\* Mutant of handleConnectionIssue: no early return on isReconnectingRef.
handleConnectionIssue_NoGuard(att, flag, status, attempts) ==
    IF att < MAX_RECONNECT_ATTEMPTS
    THEN [flag |-> TRUE, status |-> "reconnecting",
          attempts |-> attempts + 1, policy |-> "retry"]
    ELSE [flag |-> TRUE, status |-> "failed", attempts |-> attempts,
          policy |-> "giveup"]

\* Mutant of handleConnectionIssue: the retry branch does not call
\* setReconnectAttempts.
handleConnectionIssue_NoIncrement(att, flag, status, attempts) ==
    IF flag
    THEN [flag |-> flag, status |-> status, attempts |-> attempts, policy |-> "skipped"]
    ELSE IF att < MAX_RECONNECT_ATTEMPTS
         THEN [flag |-> TRUE, status |-> "reconnecting", attempts |-> attempts, policy |-> "retry"]
         ELSE [flag |-> TRUE, status |-> "failed", attempts |-> attempts, policy |-> "giveup"]

\* Mutant of handleConnectionIssue: giving up releases the in-flight flag.
handleConnectionIssue_GiveUpReleases(att, flag, status, attempts) ==
    IF flag
    THEN [flag |-> flag, status |-> status, attempts |-> attempts, policy |-> "skipped"]
    ELSE IF att < MAX_RECONNECT_ATTEMPTS
         THEN [flag |-> TRUE, status |-> "reconnecting", attempts |-> attempts + 1, policy |-> "retry"]
         ELSE [flag |-> FALSE, status |-> "failed", attempts |-> attempts, policy |-> "giveup"]

\* handleConnectionIssue of a render whose reconnectAttempts was att.
handleConnectionIssue(att, flag, status, attempts) ==
    IF flag
    THEN [flag |-> flag, status |-> status, attempts |-> attempts,
          policy |-> "skipped"]
    ELSE IF att < MAX_RECONNECT_ATTEMPTS
         THEN [flag |-> TRUE, status |-> "reconnecting",
               attempts |-> attempts + 1, policy |-> "retry"]
         ELSE [flag |-> TRUE, status |-> "failed", attempts |-> attempts,
               policy |-> "giveup"]

\* setConnectionStatus / setReconnectAttempts: dropped once unmounted.
SetStatus(s) == connectionStatus' = IF mounted THEN s ELSE connectionStatus
SetAttempts(n) == reconnectAttempts' = IF mounted THEN n ELSE reconnectAttempts

\* The state scenario B starts from.
RunStart ==
    /\ mounted /\ connectionStatus = "connected" /\ reconnectAttempts = 0
    /\ jitsiApiRef # 0 /\ ~isReconnecting

\* A step that is not part of a run of connectionFailed events ends the run.
BreakRun == failRun' = IF RunStart' THEN 0 ELSE -1

\* ------------------------------------------------------------------- init
Init ==
    /\ mounted = TRUE
    /\ libLoaded \in BOOLEAN
    /\ props = JitsiMeetProps
    /\ propChanges = 0
    /\ connectionStatus = "connecting"
    /\ reconnectAttempts = 0
    /\ isReconnecting = FALSE
    /\ jitsiApiRef = 0
    /\ handles = <<>>
    /\ options = NoOptions
    /\ scripts = <<>>
    /\ effectDeps = NoDeps
    /\ cleanupKind = "none"
    /\ cleanupScript = 0
    /\ last = NoStep
    /\ failRun = -1

\* ---------------------------------------------------------------- actions
\* Mutant of cleanup: the dispose branch does not null jitsiApiRef.current.
cleanup_KeepsRef(kind, scr, hs, ref, ss) ==
    CASE kind = "script" ->
           [handles |-> hs, ref |-> ref, scripts |-> [ss EXCEPT ![scr].inDom = FALSE]]
      [] kind = "dispose" ->
           [handles |-> dispose(hs, ref), ref |-> ref, scripts |-> ss]
      [] OTHER -> [handles |-> hs, ref |-> ref, scripts |-> ss]

\* The cleanup the last effect returned: the script branch removes its
\* script element, the other branch disposes the handle in jitsiApiRef.
cleanup(kind, scr, hs, ref, ss) ==
    CASE kind = "script" ->
           [handles |-> hs, ref |-> ref, scripts |-> [ss EXCEPT ![scr].inDom = FALSE]]
      [] kind = "dispose" ->
           [handles |-> dispose(hs, ref), ref |-> 0, scripts |-> ss]
      [] OTHER -> [handles |-> hs, ref |-> ref, scripts |-> ss]

\* useEffect: a dependency changed (or first mount); the previous cleanup
\* runs, then the effect body of the current render.
RunEffect ==
    /\ mounted
    /\ Deps # effectDeps
    /\ effectDeps' = Deps
    /\ UNCHANGED <<mounted, libLoaded, props, propChanges, reconnectAttempts>>
    /\ LET c == cleanup(cleanupKind, cleanupScript, handles, jitsiApiRef, scripts) IN
       IF ~libLoaded
       THEN /\ scripts' = Append(c.scripts,
                                 [closure |-> Closure, state |-> "pending", inDom |-> TRUE])
            /\ cleanupKind' = "script"
            /\ cleanupScript' = Len(scripts) + 1
            /\ handles' = c.handles
            /\ jitsiApiRef' = c.ref
            /\ UNCHANGED <<connectionStatus, isReconnecting, options>>
            /\ last' = Step("effect", "script", "none")
       ELSE \E throws \in BOOLEAN :
            LET r == initializeJitsi(Closure, TRUE, throws, c.handles, c.ref,
                                     isReconnecting, options) IN
            /\ Len(r.handles) <= MaxHandles
            /\ scripts' = c.scripts
            /\ cleanupKind' = "dispose"
            /\ cleanupScript' = 0
            /\ handles' = r.handles
            /\ options' = r.options
            /\ jitsiApiRef' = r.ref
            /\ isReconnecting' = r.flag
            /\ SetStatus(r.status)
            /\ last' = Step("effect", r.result, "none")
    /\ IF last'.cause = "reconnect" /\ last'.result = "created" /\ failRun >= 0
       THEN failRun' = failRun
       ELSE BreakRun

\* script.onload = initializeJitsi: script i has been fetched and run; it
\* defines window.JitsiMeetExternalAPI or (a wrong file) does not.
ScriptLoad(i) ==
    /\ scripts[i].state = "pending"
    /\ scripts' = [scripts EXCEPT ![i].state = "loaded"]
    /\ UNCHANGED <<mounted, props, propChanges, reconnectAttempts, effectDeps,
                   cleanupKind, cleanupScript>>
    /\ \E defines \in BOOLEAN, throws \in BOOLEAN :
       LET lib == libLoaded \/ defines
           r == initializeJitsi(scripts[i].closure, lib, throws, handles,
                                jitsiApiRef, isReconnecting, options) IN
       /\ lib \/ ~throws
       /\ Len(r.handles) <= MaxHandles
       /\ libLoaded' = lib
       /\ handles' = r.handles
       /\ options' = r.options
       /\ jitsiApiRef' = r.ref
       /\ isReconnecting' = r.flag
       /\ SetStatus(r.status)
       /\ last' = Step("scriptLoad", r.result, "none")
    /\ BreakRun

\* script.onerror = handleScriptError
handleScriptError(i) ==
    /\ scripts[i].state = "pending"
    /\ scripts' = [scripts EXCEPT ![i].state = "failed"]
    /\ SetStatus("error")
    /\ UNCHANGED <<mounted, libLoaded, props, propChanges, reconnectAttempts,
                   isReconnecting, jitsiApiRef, handles, options, effectDeps,
                   cleanupKind, cleanupScript>>
    /\ last' = Step("scriptError", "none", "none")
    /\ BreakRun

\* An event listener of live handle h that only calls setConnectionStatus.
StatusEvent(h, name, status) ==
    /\ h \in Live(handles)
    /\ SetStatus(status)
    /\ UNCHANGED <<mounted, libLoaded, props, propChanges, reconnectAttempts,
                   isReconnecting, jitsiApiRef, handles, options, scripts,
                   effectDeps, cleanupKind, cleanupScript>>
    /\ last' = Step(name, "none", "none")
    /\ BreakRun

\* readyToClose: handleClose
handleClose(h) == StatusEvent(h, "readyToClose", "closed")

\* videoConferenceJoined: handleVideoConferenceJoined
handleVideoConferenceJoined(h) == StatusEvent(h, "videoConferenceJoined", "connected")

\* Mutant of handleVideoConferenceLeft: it sets closed, as handleClose does.
handleVideoConferenceLeft_Closed(h) == StatusEvent(h, "videoConferenceLeft", "closed")

\* videoConferenceLeft: handleVideoConferenceLeft
handleVideoConferenceLeft(h) == StatusEvent(h, "videoConferenceLeft", "left")

\* connectionEstablished: the inline listener
connectionEstablished(h) == StatusEvent(h, "connectionEstablished", "connected")

\* An event listener of live handle h that calls handleConnectionIssue of
\* the render the handle was created in.
IssueEvent(h, name, payload, counts) ==
    /\ h \in Live(handles)
    /\ UNCHANGED <<mounted, libLoaded, props, propChanges, jitsiApiRef, handles,
                   options, scripts, effectDeps, cleanupKind, cleanupScript>>
    /\ LET r == handleConnectionIssue(handles[h].reconnectAttempts, isReconnecting,
                                      connectionStatus, reconnectAttempts) IN
       /\ isReconnecting' = r.flag
       /\ SetStatus(r.status)
       /\ SetAttempts(r.attempts)
       /\ last' = Step(name, payload, r.policy)
       /\ failRun' = IF r.policy = "skipped" THEN failRun
                     ELSE IF counts /\ failRun >= 0 /\ mounted THEN failRun + 1
                     ELSE -1

\* connectionFailed: handleConnectionFailure
handleConnectionFailure(h) == IssueEvent(h, "connectionFailed", "none", TRUE)

\* suspendDetected: handleSuspendDetected
handleSuspendDetected(h) == IssueEvent(h, "suspendDetected", "none", FALSE)

\* errorOccurred: handleErrorOccurred
handleErrorOccurred(h) ==
    \E error \in ErrorPayloads :
        IF error.defined /\ (includes(error.text, ServiceWord) \/ includes(error.text, LimitWord))
        THEN IssueEvent(h, "errorOccurred", error.kind, FALSE)
        ELSE /\ h \in Live(handles)
             /\ UNCHANGED <<mounted, libLoaded, props, propChanges, connectionStatus,
                            reconnectAttempts, isReconnecting, jitsiApiRef, handles,
                            options, scripts, effectDeps, cleanupKind, cleanupScript,
                            failRun>>
             /\ last' = Step("errorOccurred", error.kind, "none")

\* The setInterval callback of the probe scheduled together with handle t.
connectionMonitor(t) ==
    /\ t \in Monitors(handles)
    /\ UNCHANGED <<mounted, libLoaded, props, propChanges, jitsiApiRef, options,
                   scripts, effectDeps, cleanupKind, cleanupScript>>
    /\ IF jitsiApiRef = 0 \/ ~mounted
       THEN /\ handles' = [handles EXCEPT ![t].monitor = FALSE]
            /\ UNCHANGED <<connectionStatus, reconnectAttempts, isReconnecting, failRun>>
            /\ last' = Step("tick", "cleared", "none")
       ELSE \E throws \in BOOLEAN :
            IF throws
            THEN LET r == handleConnectionIssue(handles[t].reconnectAttempts,
                              isReconnecting, connectionStatus, reconnectAttempts) IN
                 /\ isReconnecting' = r.flag
                 /\ SetStatus(r.status)
                 /\ SetAttempts(r.attempts)
                 /\ handles' = [handles EXCEPT ![t].monitor = FALSE]
                 /\ last' = Step("tick", "probeFailed", r.policy)
                 /\ failRun' = IF r.policy = "skipped" THEN failRun ELSE -1
            ELSE /\ UNCHANGED <<connectionStatus, reconnectAttempts, isReconnecting,
                                handles, failRun>>
                 /\ last' = Step("tick", "ok", "none")

\* The host page re-renders the component with one prop changed.
PropsChange(f) ==
    /\ mounted
    /\ propChanges < MaxPropChanges
    /\ props' = [props EXCEPT ![f] = OtherValue(props, f)]
    /\ propChanges' = propChanges + 1
    /\ UNCHANGED <<mounted, libLoaded, connectionStatus, reconnectAttempts,
                   isReconnecting, jitsiApiRef, handles, options, scripts,
                   effectDeps, cleanupKind, cleanupScript>>
    /\ last' = Step("propsChange", f, "none")
    /\ BreakRun

\* The host page unmounts the component (handleLeaveMeeting, navigation):
\* the cleanup of the last effect runs.
Unmount ==
    /\ mounted
    /\ mounted' = FALSE
    /\ LET c == cleanup(cleanupKind, cleanupScript, handles, jitsiApiRef, scripts) IN
       /\ handles' = c.handles
       /\ jitsiApiRef' = c.ref
       /\ scripts' = c.scripts
    /\ cleanupKind' = "none"
    /\ cleanupScript' = 0
    /\ failRun' = -1
    /\ UNCHANGED <<libLoaded, props, propChanges, connectionStatus,
                   reconnectAttempts, isReconnecting, options, effectDeps>>
    /\ last' = Step("unmount", cleanupKind, "none")

Next ==
    \/ RunEffect
    \/ \E i \in 1..Len(scripts) : ScriptLoad(i)
    \/ \E i \in 1..Len(scripts) : handleScriptError(i)
    \/ \E h \in 1..Len(handles) : handleClose(h)
    \/ \E h \in 1..Len(handles) : handleVideoConferenceJoined(h)
    \/ \E h \in 1..Len(handles) : handleVideoConferenceLeft(h)
    \/ \E h \in 1..Len(handles) : connectionEstablished(h)
    \/ \E h \in 1..Len(handles) : handleConnectionFailure(h)
    \/ \E h \in 1..Len(handles) : handleSuspendDetected(h)
    \/ \E h \in 1..Len(handles) : handleErrorOccurred(h)
    \/ \E t \in 1..Len(handles) : connectionMonitor(t)
    \/ \E f \in PropFields : PropsChange(f)
    \/ Unmount

Spec == Init /\ [][Next]_vars

\* React flushes the effect of a committed render: a pending effect of a
\* mounted component does run.
FairSpec == Spec /\ WF_vars(RunEffect)

\* ------------------------------------------------------------------ view
\* renderConnectionStatus: the status line as the sequence of its text
\* pieces; the empty sequence is null (nothing rendered).
renderConnectionStatus(status, attempts) ==
    CASE status = "connecting" -> <<"Connecting to conference...">>
      [] status = "reconnecting" ->
           <<"Connection interrupted. Reconnecting... (Attempt ", ToString(attempts),
             "/", ToString(MAX_RECONNECT_ATTEMPTS), ")">>
      [] status = "error" ->
           <<"Failed to connect to the conference. Please try again.">>
      [] status = "failed" ->
           <<"Could not reconnect after multiple attempts. Please reload the page.">>
      [] OTHER -> <<>>

\* The JSX the component returns: the status line (not evaluated when
\* connected) above the container the widget mounts into.
View(status, attempts) ==
    [statusLine |-> IF status # "connected"
                    THEN renderConnectionStatus(status, attempts)
                    ELSE <<>>,
     container |-> "jitsi-meet-container",
     height |-> IF status = "connected" THEN "100%" ELSE "calc(100% - 40px)"]

\* --------------------------------------------------------------- typing
TypeOK ==
    /\ mounted \in BOOLEAN /\ libLoaded \in BOOLEAN
    /\ connectionStatus \in ConnectionStates
    /\ reconnectAttempts \in 0..MaxHandles
    /\ isReconnecting \in BOOLEAN
    /\ jitsiApiRef \in 0..Len(handles)
    /\ Len(handles) <= MaxHandles /\ Len(scripts) <= MaxPropChanges + 1
    /\ failRun \in -1..4

\* ------------------------------------------------------------ properties
\* A restart is scheduled: a dependency differs from the last effect's.
RestartPending == mounted /\ Deps # effectDeps

\* The steps that report a failure to the reconnect policy.
PolicyStep(st) ==
    \/ st.op \in {"connectionFailed", "suspendDetected"}
    \/ st.op = "errorOccurred" /\ st.policy # "none"
    \/ st.op = "tick" /\ st.result = "probeFailed"

\* C1: in every reachable state at most one handle is live (constructed,
\* not disposed), and jitsiApiRef is null or refers to a live handle.
C1_OneLiveHandle ==
    /\ Cardinality(Live(handles)) <= 1
    /\ jitsiApiRef # 0 => jitsiApiRef \in Live(handles)

\* C1 witness: a third handle is live after two earlier ones were disposed.
C1_Witness ==
    /\ Len(handles) >= 3
    /\ jitsiApiRef = Len(handles)
    /\ Live(handles) = {jitsiApiRef}

\* C2: reconnectAttempts never exceeds MAX_RECONNECT_ATTEMPTS.
C2_CounterBounded == reconnectAttempts <= MAX_RECONNECT_ATTEMPTS

\* C3 (as claimed): from connected with counter 0, after three handled
\* connectionFailed events the state is failed, the counter is 3 and no
\* restart is scheduled.
C3_FailedAfterThree ==
    failRun = 3 =>
        /\ connectionStatus = "failed"
        /\ reconnectAttempts = 3
        /\ ~RestartPending

\* C3 (amended): from connected with counter 0, each of the first three
\* connectionFailed events the policy handles increments the counter and
\* leaves the state reconnecting (connected once its restart has run); the
\* fourth one sets the state to failed with the counter at 3 and schedules
\* no restart.
C3_FailedAfterFour ==
    /\ failRun \in 1..3 =>
           /\ reconnectAttempts = failRun
           /\ connectionStatus = IF RestartPending THEN "reconnecting" ELSE "connected"
           /\ RestartPending = isReconnecting
    /\ failRun = 4 =>
           /\ connectionStatus = "failed"
           /\ reconnectAttempts = 3
           /\ ~RestartPending
           /\ jitsiApiRef = Len(handles)

\* C3 witness: the fourth connectionFailed of the run has been handled.
C3_Witness == failRun = 4 /\ last.op = "connectionFailed" /\ last.policy = "giveup"

\* C4: after connectionEstablished has been handled the counter is 0 and the
\* state is connected.
C4_EstablishedResets ==
    (mounted /\ last.op = "connectionEstablished") =>
        (reconnectAttempts = 0 /\ connectionStatus = "connected")

\* C5: after an unmount no handle is live.
C5_UnmountDisposes == last.op = "unmount" => Live(handles) = {}

\* C6: a teardown (unmount, or the cleanup run before an effect re-runs)
\* leaves no probe running except the one of the handle the same step
\* constructs.
C6_TeardownCancelsProbe ==
    last.op \in {"unmount", "effect"} =>
        Monitors(handles) \subseteq
            (IF last.op = "effect" /\ last.result = "created" THEN {jitsiApiRef} ELSE {})

\* C7: a failure reported while a reconnect is in flight changes nothing
\* (the policy does not run again: counter, flag and handles stay as they
\* are); one reported while none is in flight runs the policy once: the flag
\* is set and the counter grows by exactly one with one restart scheduled
\* (retry), or stays as it is (give up).
C7_PolicyIdempotent ==
    PolicyStep(last) =>
        /\ isReconnecting
        /\ last.made = 0 /\ last.disposals = 0
        /\ last.policy \in {"skipped", "retry", "giveup"}
        /\ last.policy = "skipped" =>
               /\ last.flag = "kept" /\ last.inc = 0
               /\ last.sameStatus /\ ~last.scheduled
        /\ last.policy \in {"retry", "giveup"} => last.flag = "set"
        /\ last.policy = "retry" =>
               /\ last.inc = IF mounted THEN 1 ELSE 0
               /\ mounted => RestartPending
        /\ last.policy = "giveup" => last.inc = 0

\* C7 witness: a probe failure was ignored because a connectionFailed had
\* already scheduled the restart, which has not run yet.
C7_Witness ==
    /\ last.op = "tick" /\ last.result = "probeFailed" /\ last.policy = "skipped"
    /\ isReconnecting /\ RestartPending
    /\ reconnectAttempts = effectDeps.reconnectAttempts + 1

\* C8 (as claimed): when the effect re-runs for changed params while a handle
\* is live, the old handle is disposed exactly once and exactly one new
\* handle is constructed with the new params.
C8_ParamsChangeRecreates ==
    (last.op = "effect" /\ last.cause = "params" /\ last.had) =>
        /\ last.disposals = 1
        /\ last.made = 1
        /\ jitsiApiRef = Len(handles)
        /\ options = props

\* C8 (amended): the old handle is disposed exactly once, and exactly one new
\* handle is constructed with the new params unless the constructor throws,
\* in which case none is constructed.
C8_ParamsChangeRecreatesUnlessThrow ==
    (last.op = "effect" /\ last.cause = "params" /\ last.had) =>
        /\ last.disposals = 1
        /\ \A i \in 1..Len(handles) : handles[i].disposed <= 1
        /\ IF last.result = "created"
           THEN /\ last.made = 1
                /\ jitsiApiRef = Len(handles)
                /\ Live(handles) = {jitsiApiRef}
                /\ options = props
           ELSE /\ last.result = "threw"
                /\ last.made = 0
                /\ jitsiApiRef = 0
                /\ Live(handles) = {}

\* C8 witness: a params change replaced a live handle by one constructed
\* with the changed params.
C8_Witness ==
    /\ last.op = "effect" /\ last.cause = "params" /\ last.result = "created"
    /\ last.had /\ last.disposals = 1
    /\ props # JitsiMeetProps
    /\ options = props

\* C9: once the state is failed it stays failed and no handle is
\* constructed.
C9_FailedIsTerminal ==
    [][(mounted /\ connectionStatus = "failed") =>
        (connectionStatus' = "failed" /\ Len(handles') = Len(handles))]_vars

\* C10: a script load failure, a start without the library and a throwing
\* constructor set the state to error, leave the counter (the only effect
\* dependency the component changes itself) and the in-flight flag alone and
\* construct no handle, so no restart is scheduled by them.
C10_StartFailureIsError ==
    (last.op = "scriptError" \/ last.result \in {"nolib", "threw"}) =>
        /\ mounted => connectionStatus = "error"
        /\ last.inc = 0
        /\ last.flag = "kept"
        /\ last.made = 0
        /\ ~last.scheduled

\* C10 witness: the constructor threw in a restart of the reconnect policy.
C10_Witness ==
    /\ last.op = "effect" /\ last.cause = "reconnect" /\ last.result = "threw"
    /\ connectionStatus = "error"
    /\ reconnectAttempts > 0
    /\ isReconnecting

\* C11: a change of any prop (roomName, displayName, domain,
\* startWithAudioMuted, startWithVideoMuted) while a handle is held schedules
\* a restart (the effect re-runs, tearing the handle down and constructing a
\* new one with the changed values).
C11_AnyPropChangeRestarts ==
    (last.op = "propsChange" /\ jitsiApiRef # 0) => RestartPending

\* C12: at most one probe timer is running.
C12_OneProbe == Cardinality(Monitors(handles)) <= 1

\* C13: a start that constructed a handle leaves the state at connecting.
C13_StartIsConnecting ==
    (mounted /\ last.result = "created") => connectionStatus = "connecting"

\* The reconnect policy ran with no reconnect in flight and chose to retry.
RetryStep == PolicyStep(last) /\ last.policy = "retry"

\* The restart of the reconnect policy ran: the effect re-ran because only
\* reconnectAttempts changed.
RestartRan == last.op = "effect" /\ last.cause = "reconnect"

\* C14: when the policy runs with no reconnect in flight and the counter
\* below MAX_RECONNECT_ATTEMPTS, in the mounted component the counter grows
\* by exactly one, the state becomes reconnecting and a restart is scheduled;
\* the restart then runs (unless the component is unmounted first), once: it
\* leaves no restart scheduled, disposes the previous handle exactly once
\* before the constructor is called and hands the constructor the current
\* props.
C14_RetryRestartsOnce ==
    /\ [](RetryStep /\ mounted =>
            /\ last.inc = 1
            /\ last.flag = "set"
            /\ connectionStatus = "reconnecting"
            /\ RestartPending)
    /\ [](RestartRan =>
            /\ ~RestartPending
            /\ last.had => last.disposals = 1
            /\ last.made <= 1
            /\ last.result = "created" =>
                   (last.made = 1 /\ options = props /\ Live(handles) = {jitsiApiRef}))
    /\ (RetryStep /\ mounted) ~> (last.op = "effect" \/ ~mounted)

\* C14 witness: the restart of a retry has run and constructed the second
\* handle after disposing the first.
C14_Witness ==
    /\ RestartRan /\ last.result = "created" /\ last.had /\ last.disposals = 1
    /\ reconnectAttempts = 1
    /\ jitsiApiRef = 2

\* C15: a probe tick while a handle is held either finds the widget
\* responsive in an attached container (nothing changes, the interval keeps
\* running) or invokes the reconnect policy and cancels its own interval.
C15_ProbeFailureInvokesPolicy ==
    (last.op = "tick" /\ last.had /\ last.result # "ok") => last.policy # "none"

\* C16: every connectionFailed, every suspendDetected and every
\* errorOccurred whose error text contains "service" or "limit" invokes the
\* reconnect policy; an errorOccurred with another text or without the field
\* changes neither state, counter, flag, handles nor timers.
C16_FailureEventsInvokePolicy ==
    /\ last.op \in {"connectionFailed", "suspendDetected"} =>
           last.policy \in {"skipped", "retry", "giveup"}
    /\ (last.op = "errorOccurred" /\ last.result \in {"service", "limit"}) =>
           last.policy \in {"skipped", "retry", "giveup"}
    /\ (last.op = "errorOccurred" /\ last.result \in {"other", "undefined"}) =>
           /\ last.policy = "none"
           /\ last.sameStatus /\ last.inc = 0 /\ last.flag = "kept"
           /\ last.made = 0 /\ last.disposals = 0 /\ last.timers = 0
           /\ ~last.scheduled

\* C16 witness: an errorOccurred whose text has "limit" in the middle ran the
\* policy, which scheduled a restart.
C16_Witness ==
    /\ last.op = "errorOccurred" /\ last.result = "limit" /\ last.policy = "retry"
    /\ connectionStatus = "reconnecting" /\ RestartPending

\* C17: videoConferenceJoined sets the state to connected,
\* videoConferenceLeft to left and readyToClose to closed, and none of them
\* changes the counter, the in-flight flag, a handle or a probe timer (nor
\* schedules a restart).
C17_LifecycleEventsOnlySetState ==
    last.op \in {"videoConferenceJoined", "videoConferenceLeft", "readyToClose"} =>
        /\ mounted =>
               connectionStatus =
                   CASE last.op = "videoConferenceJoined" -> "connected"
                     [] last.op = "videoConferenceLeft" -> "left"
                     [] last.op = "readyToClose" -> "closed"
        /\ last.inc = 0 /\ last.flag = "kept"
        /\ last.made = 0 /\ last.disposals = 0 /\ last.timers = 0
        /\ ~last.scheduled

\* C17 witness: videoConferenceLeft arrived while a restart was scheduled and
\* still is; the handle and its probe are as they were.
C17_Witness ==
    /\ last.op = "videoConferenceLeft" /\ connectionStatus = "left"
    /\ isReconnecting /\ RestartPending /\ reconnectAttempts = 1
    /\ jitsiApiRef \in Live(handles) /\ handles[jitsiApiRef].monitor

\* A step that handled an error: a script load failure, a start without the
\* library, a throwing constructor, or a failure handed to the reconnect
\* policy.
ErrorStep ==
    \/ PolicyStep(last)
    \/ last.op = "scriptError"
    \/ last.result \in {"nolib", "threw"}

\* C18: every handled error changes the state, or leaves it at one of the
\* states the view renders as an error (error, reconnecting, failed).
C18_NoErrorDropped ==
    (mounted /\ ErrorStep) =>
        (~last.sameStatus \/ connectionStatus \in {"error", "reconnecting", "failed"})

\* C19: a teardown caused by a params change sets the state to closed: where
\* the start that follows does not set the state itself (it only appends the
\* script), the state is closed after the effect has re-run.
C19_TeardownSetsClosed ==
    (last.op = "effect" /\ last.cause = "params" /\ last.result = "script") =>
        connectionStatus = "closed"

\* C20: the view shows a non-empty status line in every state but connected,
\* none in connected, and the container in every state.
C20_StatusLineUnlessConnected ==
    LET view == View(connectionStatus, reconnectAttempts) IN
    /\ view.container = "jitsi-meet-container"
    /\ connectionStatus = "connected" <=> Len(view.statusLine) = 0

\* The reconnect policy ran with no reconnect in flight and gave up.
GiveUpStep == PolicyStep(last) /\ last.policy = "giveup"

\* C21 (as claimed): giving up changes only the state (to failed) and the
\* in-flight flag (to set): counter, handles and probe timers are as they
\* were, and the flag is cleared only by a start that constructs a handle.
C21_GiveUpChangesStateAndFlagOnly ==
    /\ GiveUpStep =>
           /\ mounted => connectionStatus = "failed"
           /\ last.flag = "set" /\ isReconnecting
           /\ last.inc = 0 /\ reconnectAttempts >= MAX_RECONNECT_ATTEMPTS
           /\ last.made = 0 /\ last.disposals = 0
           /\ last.had => jitsiApiRef \in Live(handles)
           /\ ~last.scheduled
           /\ last.timers = 0
    /\ last.flag = "cleared" => last.result = "created"

\* C21 (amended): as claimed, except that a give-up triggered by a probe tick
\* cancels the interval of that probe (which may be the live handle's own).
C21_GiveUpKeepsHandle ==
    /\ GiveUpStep =>
           /\ mounted => connectionStatus = "failed"
           /\ last.flag = "set" /\ isReconnecting
           /\ last.inc = 0 /\ reconnectAttempts >= MAX_RECONNECT_ATTEMPTS
           /\ last.made = 0 /\ last.disposals = 0
           /\ last.had => jitsiApiRef \in Live(handles)
           /\ ~last.scheduled
           /\ last.timers = IF last.op = "tick" THEN -1 ELSE 0
    /\ last.flag = "cleared" => last.result = "created"

\* C21 witness: the probe of the live handle failed with the counter at
\* MAX_RECONNECT_ATTEMPTS: the policy gave up, the handle is still live and
\* its probe is cancelled.
C21_Witness ==
    /\ GiveUpStep /\ last.op = "tick"
    /\ connectionStatus = "failed" /\ isReconnecting
    /\ reconnectAttempts = MAX_RECONNECT_ATTEMPTS
    /\ jitsiApiRef \in Live(handles) /\ ~handles[jitsiApiRef].monitor

\* C22: after a start in which the constructor threw, no handle is live: the
\* handle held before was disposed (once), jitsiApiRef is null, no handle was
\* constructed, the state is error and the in-flight flag has the value it
\* had before.
C22_ThrowLeavesNoHandle ==
    last.result = "threw" =>
        /\ Live(handles) = {}
        /\ jitsiApiRef = 0
        /\ last.had => last.disposals = 1
        /\ \A i \in 1..Len(handles) : handles[i].disposed = 1
        /\ last.made = 0
        /\ last.flag = "kept"
        /\ mounted => connectionStatus = "error"

\* C22 witness: the constructor threw in the start of a loaded script while a
\* handle was live and no reconnect was in flight.
C22_Witness ==
    /\ last.op = "scriptLoad" /\ last.result = "threw"
    /\ last.had /\ last.disposals = 1
    /\ ~isReconnecting
    /\ Len(handles) >= 1 /\ Live(handles) = {}

====
